---- MODULE Spec2Model ----
(***************************************************************************)
(* Model of the rendezvous crate (src/src/lib.rs): a Rendezvous owns the   *)
(* receiver of an mpsc channel and, until its first completion attempt,    *)
(* one sender; every RendezvousGuard owns one clone of that sender.  The   *)
(* owner thread blocks in recv()/recv_timeout() until the channel is       *)
(* disconnected, i.e. until every sender has been dropped.                 *)
(***************************************************************************)
EXTENDS Integers, FiniteSets, Sequences, TLC

\* Bounds of the model.
MaxGuards == 3        \* guards that can be forked over the Rendezvous's lifetime
MaxDuration == 2      \* longest timeout, in clock ticks

GuardIds == 1..MaxGuards
Durations == 0..MaxDuration

VARIABLES
    tx,           \* Rendezvous.tx: TRUE = Some(sender), FALSE = None
    chanSenders,  \* number of live mpsc::Sender handles of the channel
    chanQueue,    \* number of () values queued in the channel
    guard,        \* per guard: "unborn", "owner", "worker" (alive, held by) or "released"
    parent,       \* per guard: 0 = forked by fork_guard, g = forked by guard g's fork
    born,         \* per guard: where the owner thread was when the guard was forked
    pc,           \* position of the thread that owns the Rendezvous
    timer,        \* ticks left of the running recv_timeout
    arm,          \* match arm taken by the last rendezvous_timeout
    panicked,     \* the owner thread hit unreachable!() in fork_guard
    txDrops,      \* how many times the internal sender has been dropped
    log           \* log events emitted so far (feature "log")

vars == <<tx, chanSenders, chanQueue, guard, parent, born, pc, timer, arm, panicked, txDrops, log>>

\* ---------------------------------------------------------------------------
\* The channel (std::sync::mpsc), as the code uses it.

\* Sender::clone: one more sender handle.
SenderClone(n) == n + 1

\* Variant: the drop of a sender is lost.
SenderDropLeak(n) == n
\* Drop of a Sender: one sender handle fewer.
SenderDrop(n) == n - 1

\* Variant: the disconnect is reported with one sender left.
DisconnectedEarly == chanQueue = 0 /\ chanSenders <= 1
\* All senders are gone and nothing is queued: recv fails with a disconnect.
Disconnected == chanQueue = 0 /\ chanSenders = 0

\* Receiver::recv returns (a value or a disconnect) instead of blocking.
RecvReady == chanQueue > 0 \/ Disconnected

\* The queue after a receive that returned.
Received(q) == IF q > 0 THEN q - 1 ELSE q

\* ---------------------------------------------------------------------------
\* State of guards.

Live(g) == guard[g] \in {"owner", "worker"}
LiveGuards == {g \in GuardIds : Live(g)}
Unborn == {g \in GuardIds : guard[g] = "unborn"}
NextId == CHOOSE g \in Unborn : \A h \in Unborn : g <= h

\* Result<(), RendezvousTimeoutError> of the last rendezvous_timeout.
result == CASE arm \in {"value", "disconnected"} -> "Ok"
            [] arm = "timeout" -> "Timeout"
            [] OTHER -> "none"

Init ==
    /\ tx = TRUE
    /\ chanSenders = 1
    /\ chanQueue = 0
    /\ guard = [g \in GuardIds |-> "unborn"]
    /\ parent = [g \in GuardIds |-> 0]
    /\ born = [g \in GuardIds |-> "unborn"]
    /\ pc = "running"
    /\ timer = 0
    /\ arm = "none"
    /\ panicked = FALSE
    /\ txDrops = 0
    /\ log = {}

\* ---------------------------------------------------------------------------
\* Rendezvous

\* Variant: the internal sender is not dropped before the receive.
TakeTxKeep ==
    /\ tx' = FALSE
    /\ UNCHANGED <<chanSenders, txDrops>>
\* Variant: every call drops a sender, not only the first.
TakeTxAgain ==
    /\ tx' = FALSE
    /\ chanSenders' = IF chanSenders > 0 THEN SenderDrop(chanSenders) ELSE chanSenders
    /\ txDrops' = IF chanSenders > 0 THEN txDrops + 1 ELSE txDrops
\* `if let Some(tx) = self.tx.take() { drop(tx); }`
TakeTx ==
    /\ tx' = FALSE
    /\ chanSenders' = IF tx THEN SenderDrop(chanSenders) ELSE chanSenders
    /\ txDrops' = IF tx THEN txDrops + 1 ELSE txDrops

\* Rendezvous::fork_guard, called by the owner thread.
ForkGuard ==
    /\ pc = "running" /\ ~panicked
    /\ IF tx
       THEN /\ Unborn # {}
            /\ guard' = [guard EXCEPT ![NextId] = "owner"]
            /\ parent' = [parent EXCEPT ![NextId] = 0]
            /\ born' = [born EXCEPT ![NextId] = pc]
            /\ chanSenders' = SenderClone(chanSenders)
            /\ log' = log \cup {"fork"}
            /\ UNCHANGED panicked
       ELSE /\ panicked' = TRUE
            /\ UNCHANGED <<guard, parent, born, chanSenders, log>>
    /\ UNCHANGED <<tx, chanQueue, pc, timer, arm, txDrops>>

\* The owner hands a guard to another thread (thread::spawn(move || ...)).
Spawn(g) ==
    /\ pc = "running" /\ ~panicked
    /\ guard[g] = "owner"
    /\ guard' = [guard EXCEPT ![g] = "worker"]
    /\ UNCHANGED <<tx, chanSenders, chanQueue, parent, born, pc, timer, arm, panicked, txDrops, log>>

\* Rendezvous::rendezvous up to the blocking recv of rendezvous_internal.
RendezvousCall ==
    /\ pc = "running" /\ ~panicked
    /\ TakeTx
    /\ pc' = "rv_recv"
    /\ UNCHANGED <<chanQueue, guard, parent, born, timer, arm, panicked, log>>

\* The recv of rendezvous_internal returns inside rendezvous().
RendezvousRecv ==
    /\ pc = "rv_recv"
    /\ RecvReady
    /\ chanQueue' = Received(chanQueue)
    /\ pc' = "rv_end"
    /\ UNCHANGED <<tx, chanSenders, guard, parent, born, timer, arm, panicked, txDrops, log>>

\* Variant: the drop reports a missing rendezvous whether or not tx is set.
RendezvousDropSelfAlwaysLogs ==
    /\ pc = "rv_end"
    /\ log' = log \cup {"not_invoked"}
    /\ TakeTx
    /\ pc' = "rv_drop_recv"
    /\ UNCHANGED <<chanQueue, guard, parent, born, timer, arm, panicked>>
\* End of rendezvous(): `self` goes out of scope, Drop::drop runs
\* rendezvous_internal again, up to its recv.
RendezvousDropSelf ==
    /\ pc = "rv_end"
    /\ log' = IF tx THEN log \cup {"not_invoked"} ELSE log
    /\ TakeTx
    /\ pc' = "rv_drop_recv"
    /\ UNCHANGED <<chanQueue, guard, parent, born, timer, arm, panicked>>

\* The recv of that second rendezvous_internal returns; rendezvous() returns.
RendezvousDropRecv ==
    /\ pc = "rv_drop_recv"
    /\ RecvReady
    /\ chanQueue' = Received(chanQueue)
    /\ pc' = "returned"
    /\ UNCHANGED <<tx, chanSenders, guard, parent, born, timer, arm, panicked, txDrops, log>>

\* Rendezvous::rendezvous_timeout up to recv_timeout.
TimeoutCall(d) ==
    /\ pc = "running" /\ ~panicked
    /\ log' = IF tx THEN log ELSE log \cup {"again"}
    /\ TakeTx
    /\ timer' = d
    /\ pc' = "to_recv"
    /\ UNCHANGED <<chanQueue, guard, parent, born, arm, panicked>>

\* Time passes while the owner is in recv_timeout.
Tick ==
    /\ pc = "to_recv"
    /\ timer > 0
    /\ timer' = timer - 1
    /\ UNCHANGED <<tx, chanSenders, chanQueue, guard, parent, born, pc, arm, panicked, txDrops, log>>

\* Variant: an elapsed timeout is reported as Ok(()).
TimeoutReturnOk ==
    /\ pc = "to_recv"
    /\ RecvReady \/ timer = 0
    /\ arm' = IF chanQueue > 0 THEN "value" ELSE "disconnected"
    /\ chanQueue' = Received(chanQueue)
    /\ pc' = "running"
    /\ UNCHANGED <<tx, chanSenders, guard, parent, born, timer, panicked, txDrops, log>>
\* Variant: the deadline is checked before the channel.
TimeoutReturnDeadlineFirst ==
    /\ pc = "to_recv"
    /\ IF timer > 0 /\ RecvReady
       THEN /\ arm' = IF chanQueue > 0 THEN "value" ELSE "disconnected"
            /\ chanQueue' = Received(chanQueue)
            /\ UNCHANGED log
       ELSE /\ timer = 0
            /\ arm' = "timeout"
            /\ log' = log \cup {"timeout"}
            /\ UNCHANGED chanQueue
    /\ pc' = "running"
    /\ UNCHANGED <<tx, chanSenders, guard, parent, born, timer, panicked, txDrops>>
\* recv_timeout returns and rendezvous_timeout maps its result.
TimeoutReturn ==
    /\ pc = "to_recv"
    /\ IF RecvReady
       THEN /\ arm' = IF chanQueue > 0 THEN "value" ELSE "disconnected"
            /\ chanQueue' = Received(chanQueue)
            /\ UNCHANGED log
       ELSE /\ timer = 0
            /\ arm' = "timeout"
            /\ log' = log \cup {"timeout"}
            /\ UNCHANGED chanQueue
    /\ pc' = "running"
    /\ UNCHANGED <<tx, chanSenders, guard, parent, born, timer, panicked, txDrops>>

\* Drop of the Rendezvous (end of scope, drop(), or unwinding after the
\* panic of fork_guard), up to the recv of rendezvous_internal.
DropCall ==
    /\ pc = "running"
    /\ log' = IF tx THEN log \cup {"not_invoked"} ELSE log
    /\ TakeTx
    /\ pc' = "drop_recv"
    /\ UNCHANGED <<chanQueue, guard, parent, born, timer, arm, panicked>>

\* Variant: the drop does not wait for the channel to disconnect.
DropNoWait ==
    /\ pc = "drop_recv"
    /\ chanQueue' = Received(chanQueue)
    /\ pc' = "dropped"
    /\ UNCHANGED <<tx, chanSenders, guard, parent, born, timer, arm, panicked, txDrops, log>>
\* The recv of rendezvous_internal returns inside Drop::drop.
DropRecv ==
    /\ pc = "drop_recv"
    /\ RecvReady
    /\ chanQueue' = Received(chanQueue)
    /\ pc' = "dropped"
    /\ UNCHANGED <<tx, chanSenders, guard, parent, born, timer, arm, panicked, txDrops, log>>

\* ---------------------------------------------------------------------------
\* RendezvousGuard

\* The thread holding guard g can take a step: another thread always can,
\* the owner thread only while it is not inside a call on the Rendezvous.
HolderRuns(g) == guard[g] = "worker" \/ (guard[g] = "owner" /\ pc = "running")

\* Variant: the child shares its parent's sender instead of cloning it.
ForkNoClone(g) ==
    /\ HolderRuns(g)
    /\ guard[g] = "owner" => ~panicked
    /\ Unborn # {}
    /\ guard' = [guard EXCEPT ![NextId] = guard[g]]
    /\ parent' = [parent EXCEPT ![NextId] = g]
    /\ born' = [born EXCEPT ![NextId] = pc]
    /\ log' = log \cup {"nested"}
    /\ UNCHANGED <<tx, chanSenders, chanQueue, pc, timer, arm, panicked, txDrops>>
\* Variant: a guard can fork only while the Rendezvous still holds its sender.
ForkWhileOpen(g) ==
    /\ tx
    /\ HolderRuns(g)
    /\ guard[g] = "owner" => ~panicked
    /\ Unborn # {}
    /\ guard' = [guard EXCEPT ![NextId] = guard[g]]
    /\ parent' = [parent EXCEPT ![NextId] = g]
    /\ born' = [born EXCEPT ![NextId] = pc]
    /\ chanSenders' = SenderClone(chanSenders)
    /\ log' = log \cup {"nested"}
    /\ UNCHANGED <<tx, chanQueue, pc, timer, arm, panicked, txDrops>>
\* RendezvousGuard::fork
Fork(g) ==
    /\ HolderRuns(g)
    /\ guard[g] = "owner" => ~panicked
    /\ Unborn # {}
    /\ guard' = [guard EXCEPT ![NextId] = guard[g]]
    /\ parent' = [parent EXCEPT ![NextId] = g]
    /\ born' = [born EXCEPT ![NextId] = pc]
    /\ chanSenders' = SenderClone(chanSenders)
    /\ log' = log \cup {"nested"}
    /\ UNCHANGED <<tx, chanQueue, pc, timer, arm, panicked, txDrops>>

\* Variant: completed() forgets the guard without dropping its sender.
CompletedForget(g) ==
    /\ HolderRuns(g)
    /\ guard[g] = "owner" => ~panicked
    /\ guard' = [guard EXCEPT ![g] = "released"]
    /\ UNCHANGED <<tx, chanSenders, chanQueue, parent, born, pc, timer, arm, panicked, txDrops, log>>
\* RendezvousGuard::completed: the empty body, then `self` is dropped.
Completed(g) ==
    /\ HolderRuns(g)
    /\ guard[g] = "owner" => ~panicked
    /\ guard' = [guard EXCEPT ![g] = "released"]
    /\ chanSenders' = SenderDrop(chanSenders)
    /\ UNCHANGED <<tx, chanQueue, parent, born, pc, timer, arm, panicked, txDrops, log>>

\* Drop of a RendezvousGuard: its Sender field is dropped.
DropGuard(g) ==
    /\ HolderRuns(g)
    /\ guard' = [guard EXCEPT ![g] = "released"]
    /\ chanSenders' = SenderDrop(chanSenders)
    /\ UNCHANGED <<tx, chanQueue, parent, born, pc, timer, arm, panicked, txDrops, log>>

\* ---------------------------------------------------------------------------

Next ==
    \/ ForkGuard
    \/ \E g \in GuardIds : Spawn(g)
    \/ RendezvousCall
    \/ RendezvousRecv
    \/ RendezvousDropSelf
    \/ RendezvousDropRecv
    \/ \E d \in Durations : TimeoutCall(d)
    \/ Tick
    \/ TimeoutReturn
    \/ DropCall
    \/ DropRecv
    \/ \E g \in GuardIds : Fork(g)
    \/ \E g \in GuardIds : Completed(g)
    \/ \E g \in GuardIds : DropGuard(g)

Spec == Init /\ [][Next]_vars

\* The scheduler runs a thread that can run: a receive that can return does.
LiveSpec ==
    /\ Init /\ [][Next]_vars
    /\ WF_vars(RendezvousRecv)
    /\ WF_vars(RendezvousDropSelf)
    /\ WF_vars(RendezvousDropRecv)
    /\ WF_vars(DropRecv)

\* ---------------------------------------------------------------------------
\* Well-formedness of the model's state.

TypeOK ==
    /\ tx \in BOOLEAN
    /\ chanSenders \in 0..(MaxGuards + 1)
    /\ chanSenders = (IF tx THEN 1 ELSE 0) + Cardinality(LiveGuards)
    /\ chanQueue \in Nat
    /\ guard \in [GuardIds -> {"unborn", "owner", "worker", "released"}]
    /\ parent \in [GuardIds -> 0..MaxGuards]
    /\ born \in [GuardIds -> {"unborn", "running", "rv_recv", "rv_drop_recv", "to_recv", "drop_recv"}]
    /\ \A g \in GuardIds : (born[g] = "unborn") <=> (guard[g] = "unborn")
    /\ pc \in {"running", "rv_recv", "rv_end", "rv_drop_recv", "returned",
               "to_recv", "drop_recv", "dropped"}
    /\ timer \in Durations
    /\ arm \in {"none", "value", "timeout", "disconnected"}
    /\ panicked \in BOOLEAN
    /\ txDrops \in Nat
    /\ log \subseteq {"fork", "nested", "again", "timeout", "not_invoked"}

\* ---------------------------------------------------------------------------
\* Properties.

\* rendezvous() has returned from its (first) blocking receive.
RendezvousPassed == pc \in {"rv_end", "rv_drop_recv", "returned"}
\* A step in which rendezvous_timeout is entered / returns.
TimeoutCallStep == pc = "running" /\ pc' = "to_recv"
TimeoutReturnStep == pc = "to_recv" /\ pc' = "running"
\* The Rendezvous is being dropped without any earlier completion attempt.
ImplicitDrop == "not_invoked" \in log

\* C1: rendezvous() stays blocked while the internal sender or any guard
\* (forked by fork_guard or by a guard) is alive, and has returned only in
\* states where the internal sender and all guards have been released.
C1_RendezvousWaitsForAll ==
    /\ RendezvousPassed => (~tx /\ LiveGuards = {} /\ chanSenders = 0)
    /\ (pc = "rv_recv" /\ (tx \/ LiveGuards # {})) => ~RecvReady

\* rendezvous() returned after every guard of the model, nested ones
\* included, was created and released.
C1_Witness ==
    /\ pc = "returned"
    /\ \A g \in GuardIds : guard[g] = "released"
    /\ \E g \in GuardIds : parent[g] # 0

\* C2: fork_guard on a Rendezvous that has not been dropped never reaches its
\* failure branch, also after a completion attempt has started.
C2_ForkGuardNeverFails == pc = "running" => ~panicked

\* C3: rendezvous_timeout returns Err(Timeout) whenever it returns while a
\* guard is outstanding; with a guard held by the calling thread it never
\* returns Ok.
C3_TimeoutWhileOutstanding ==
    [][TimeoutReturnStep =>
         /\ (LiveGuards # {} => result' = "Timeout")
         /\ ((\E g \in GuardIds : guard[g] = "owner") => result' # "Ok")]_vars

\* rendezvous_timeout returned Timeout to a caller that holds a guard itself.
C3_Witness ==
    /\ pc = "running"
    /\ arm = "timeout"
    /\ \E g \in GuardIds : guard[g] = "owner"

\* C4: after Err(Timeout) the Rendezvous can be waited on again, and a
\* rendezvous_timeout that returns once the remaining guards are released
\* returns Ok(()).
C4_RetryAfterTimeout ==
    [][/\ (TimeoutReturnStep /\ result' = "Timeout") =>
              (pc' = "running" /\ ~panicked' /\ guard' = guard)
       /\ (TimeoutReturnStep /\ "timeout" \in log /\ LiveGuards = {}) =>
              result' = "Ok"]_vars

\* A second rendezvous_timeout returned Ok after a first one timed out on a
\* guard that was released in between.
C4_Witness ==
    /\ pc = "running"
    /\ result = "Ok"
    /\ {"timeout", "again"} \subseteq log
    /\ \E g \in GuardIds : guard[g] = "released"

\* C5: the drop of a Rendezvous that was never waited on releases the internal
\* sender, stays blocked exactly as long as a guard is alive, and has completed
\* only when no guard is alive.
C5_DropWaitsForGuards ==
    ImplicitDrop =>
        /\ pc \in {"drop_recv", "dropped"}
        /\ ~tx /\ txDrops = 1
        /\ pc = "drop_recv" => (RecvReady <=> LiveGuards = {})
        /\ pc = "dropped" => LiveGuards = {}

\* The drop is blocked on one guard held by another thread.
C5_Witness ==
    /\ ImplicitDrop
    /\ pc = "drop_recv"
    /\ Cardinality(LiveGuards) = 1
    /\ \E g \in GuardIds : guard[g] = "worker"
    /\ ~RecvReady

\* C6: a guard forked from a guard counts on its own: while it is alive no
\* wait can pass, whether or not its parent has been released, and a wait has
\* passed only when both parent and child have been released.
C6_NestedForkCounts ==
    \A c \in GuardIds :
        parent[c] # 0 =>
            /\ Live(c) => (~RecvReady /\ ~RendezvousPassed /\ pc # "dropped"
                           /\ arm \notin {"value", "disconnected"})
            /\ (RendezvousPassed \/ pc = "dropped" \/ result = "Ok") =>
                   (guard[c] = "released" /\ guard[parent[c]] = "released")

\* The wait is blocked on a child whose parent has already been released.
C6_Witness ==
    /\ pc = "rv_recv"
    /\ \E c \in GuardIds :
          /\ parent[c] # 0
          /\ Live(c)
          /\ guard[parent[c]] = "released"
          /\ LiveGuards = {c}

\* C7: under fair scheduling, if every guard that is created is eventually
\* released, a blocked rendezvous() or drop eventually returns.  A guard is
\* alive once, from its fork to its release, and there are finitely many, so
\* "every guard is eventually released" is "from some point on no guard is
\* alive".
C7_BlockedWaitReturns ==
    (<>[](LiveGuards = {})) =>
        /\ (pc = "rv_recv") ~> (pc = "returned")
        /\ (pc = "drop_recv") ~> (pc = "dropped")

\* rendezvous() returned after a guard it was blocked on had been handed to
\* another thread and released there.
C7_Witness ==
    /\ pc = "returned"
    /\ \E g \in GuardIds : guard[g] = "released"
    /\ "fork" \in log

\* C8: rendezvous_timeout drops the internal sender on the first call only;
\* a later call drops no sender; no call and no return of it changes the
\* guards.
C8_TimeoutReleasesOnce ==
    [][/\ TimeoutCallStep =>
              /\ ~tx'
              /\ guard' = guard /\ parent' = parent /\ born' = born
              /\ tx => (chanSenders' = chanSenders - 1 /\ txDrops' = 1)
              /\ ~tx => (chanSenders' = chanSenders /\ txDrops' = txDrops)
       /\ TimeoutReturnStep =>
              /\ guard' = guard /\ parent' = parent /\ born' = born
              /\ chanSenders' = chanSenders /\ tx' = tx /\ txDrops' = txDrops]_vars

\* A later call of rendezvous_timeout is waiting on a remaining guard.
C8_Witness ==
    /\ pc = "to_recv"
    /\ "again" \in log
    /\ LiveGuards # {}

\* C9: completed() and the drop of a guard are the same step: wherever the
\* holder can call completed() it can drop the guard and conversely, and both
\* lead to the same state, with one sender fewer and nothing else changed.
C9_CompletedIsDrop ==
    [][\A g \in GuardIds :
          /\ Completed(g) =>
                /\ DropGuard(g)
                /\ chanSenders' = chanSenders - 1
                /\ guard' = [guard EXCEPT ![g] = "released"]
                /\ UNCHANGED <<tx, chanQueue, parent, born, pc, timer, arm, panicked, txDrops, log>>
          /\ (DropGuard(g) /\ ~(panicked /\ guard[g] = "owner")) => Completed(g)]_vars

\* A guard has been released while the owner was blocked in a wait.
C9_Witness ==
    /\ pc = "rv_recv"
    /\ \E g \in GuardIds : guard[g] = "released"
    /\ LiveGuards = {}

\* C10: with no guard ever created, the receive of rendezvous() and of drop
\* can return at once: the call itself released the only sender.
C10_NoGuardsNoWait ==
    (Unborn = GuardIds /\ pc \in {"rv_recv", "rv_drop_recv", "drop_recv"}) =>
        (RecvReady /\ chanSenders = 0)

\* rendezvous() is at its receive and no guard was ever created.
C10_Witness ==
    /\ Unborn = GuardIds
    /\ pc = "rv_recv"
    /\ ~tx

\* The owner thread is inside a wait on the channel.
WaitPcs == {"rv_recv", "rv_drop_recv", "to_recv", "drop_recv"}
\* The Rendezvous is gone: rendezvous() returned or the drop completed.
Gone == pc \in {"returned", "dropped"}
\* A guard held by the thread that owns the Rendezvous.
OwnerHolds == \E g \in GuardIds : guard[g] = "owner"

\* C11: once the owner thread is blocked in rendezvous() while it holds a
\* guard itself, it stays blocked there for ever: the receive cannot return,
\* the guard cannot be released, and no step of any thread changes that.
C11_SameThreadDeadlock ==
    /\ []((pc = "rv_recv" /\ OwnerHolds) => ~RecvReady)
    /\ [][(pc = "rv_recv" /\ OwnerHolds) =>
             /\ pc' = "rv_recv"
             /\ \A g \in GuardIds : guard[g] = "owner" => guard'[g] = "owner"]_vars

\* The owner forked a guard, kept it and is blocked in rendezvous(), all other
\* guards released: only the step after the call could release the last guard.
C11_Witness ==
    /\ pc = "rv_recv"
    /\ OwnerHolds
    /\ \A g \in GuardIds : guard[g] # "worker"
    /\ ~ENABLED Next

\* C12: a guard can fork on another thread while the owner is blocked in a
\* wait, which adds one sender; and while a guard forked during a wait is
\* alive, no wait returns as passed, however the releases interleave.
C12_ForkDuringWait ==
    /\ [](\A c \in GuardIds :
             (born[c] \in WaitPcs /\ Live(c)) =>
                 (~RecvReady /\ ~RendezvousPassed /\ pc # "dropped" /\ result # "Ok"))
    /\ [](\A g \in GuardIds :
             (guard[g] = "worker" /\ Unborn # {}) => ENABLED Fork(g))
    /\ [][\A g \in GuardIds :
             (pc \in WaitPcs /\ Fork(g)) =>
                 (pc' = pc /\ chanSenders' = chanSenders + 1 /\ ~RecvReady')]_vars

\* The owner is still blocked in rendezvous() on a child that was forked
\* during that wait and whose parent has been released since.
C12_Witness ==
    /\ pc = "rv_recv"
    /\ \E c \in GuardIds :
          /\ born[c] = "rv_recv"
          /\ guard[c] = "worker"
          /\ guard[parent[c]] = "released"

\* A step of the thread that owns the Rendezvous.
OwnerStep ==
    \/ ForkGuard
    \/ \E g \in GuardIds : Spawn(g)
    \/ RendezvousCall
    \/ RendezvousRecv
    \/ RendezvousDropSelf
    \/ RendezvousDropRecv
    \/ \E d \in Durations : TimeoutCall(d)
    \/ Tick
    \/ TimeoutReturn
    \/ DropCall
    \/ DropRecv

\* C13: the thread that holds a live guard can drop it, call completed() or
\* (while the model has a guard left) fork it at once, whatever the state of
\* the Rendezvous and of the other guards; the owner thread is unable to step
\* only inside rendezvous(), rendezvous_timeout() or the drop.
C13_GuardOpsNeverBlock ==
    /\ \A g \in GuardIds :
          HolderRuns(g) =>
              /\ ENABLED DropGuard(g)
              /\ ~(panicked /\ guard[g] = "owner") =>
                     /\ ENABLED Completed(g)
                     /\ Unborn # {} => ENABLED Fork(g)
    /\ (~Gone /\ ~ENABLED OwnerStep) => pc \in WaitPcs

\* A guard on another thread can still fork while the owner is blocked in
\* the drop of the Rendezvous.
C13_Witness ==
    /\ pc = "drop_recv"
    /\ ~ENABLED OwnerStep
    /\ Unborn # {}
    /\ \E g \in GuardIds : guard[g] = "worker"

\* Open (internal sender held), Closing (released, senders left), Resolved.
Phase == IF tx THEN 0 ELSE IF chanSenders > 0 THEN 1 ELSE 2

\* C14: the internal sender is dropped exactly once, by the first
\* rendezvous(), rendezvous_timeout() or drop; once dropped it is never held
\* again, and the state never moves back towards Open.
C14_ForwardOnly ==
    [][/\ txDrops' = (IF tx' THEN 0 ELSE 1)
       /\ ~tx => ~tx'
       /\ Phase' >= Phase
       /\ (tx /\ ~tx') => (pc = "running" /\ pc' \in {"rv_recv", "to_recv", "drop_recv"})
       /\ pc' \in WaitPcs \cup {"rv_end", "returned", "dropped"} => ~tx']_vars

\* A second rendezvous_timeout is under way with a guard still alive and the
\* internal sender dropped once.
C14_Witness ==
    /\ pc = "to_recv"
    /\ "again" \in log
    /\ txDrops = 1
    /\ Phase = 1

\* The internal sender and every guard have been released.
Resolved == ~tx /\ LiveGuards = {}

\* C15: once the internal sender and every guard are released, that stays so
\* (no step creates a sender), every rendezvous_timeout that returns from then
\* on returns Ok(()), also after an earlier Timeout, and an Ok is never
\* followed by a Timeout.
C15_ResolvedIsStable ==
    /\ [](Resolved => chanSenders = 0)
    /\ [][/\ Resolved => (Resolved' /\ guard' = guard)
          /\ (Resolved /\ TimeoutReturnStep) => result' = "Ok"
          /\ result = "Ok" => result' = "Ok"]_vars

\* A wait is repeated after one that returned Ok, with an earlier Timeout.
C15_Witness ==
    /\ pc = "to_recv"
    /\ Resolved
    /\ arm = "disconnected"
    /\ "timeout" \in log

\* C16: the channel's state depends only on which guards are alive, not on the
\* order of their releases; every guard on another thread can be released at
\* any time; and a release makes the wait ready exactly when it is the release
\* of the last sender, whichever guard holds it.
C16_ReleaseOrderFree ==
    /\ [](/\ chanSenders = (IF tx THEN 1 ELSE 0) + Cardinality(LiveGuards)
          /\ RecvReady <=> Resolved
          /\ \A g \in GuardIds : guard[g] = "worker" => ENABLED DropGuard(g))
    /\ [][\A g \in GuardIds :
             (DropGuard(g) \/ Completed(g)) =>
                 /\ chanSenders' = chanSenders - 1
                 /\ \A h \in GuardIds \ {g} : guard'[h] = guard[h]
                 /\ RecvReady' <=> (~tx /\ LiveGuards = {g})]_vars

\* Guards forked in the order 1, 2 are released in the order 2, 1: the wait is
\* still blocked on the first after the second is gone.
C16_Witness ==
    /\ MaxGuards >= 2
    /\ pc = "rv_recv"
    /\ guard[1] = "worker"
    /\ guard[2] = "released"
    /\ parent[2] = 0

\* C17: whenever the Rendezvous is gone (its drop completed, at the end of
\* rendezvous() or on its own), no guard is alive; a drop after a Timeout
\* stays blocked while a guard is alive.
C17_NoGuardOutlivesDrop ==
    /\ Gone => (LiveGuards = {} /\ ~tx /\ chanSenders = 0)
    /\ (pc \in {"drop_recv", "rv_drop_recv"} /\ LiveGuards # {}) => ~RecvReady

\* The Rendezvous was dropped after a rendezvous_timeout that timed out on a
\* guard.
C17_Witness ==
    /\ pc = "dropped"
    /\ arm = "timeout"
    /\ \E g \in GuardIds : guard[g] = "released"

\* C18: nothing is ever queued in the channel, so rendezvous_timeout never
\* takes the arm of a received value, and it has returned Ok(()) only with the
\* internal sender and every guard released.
C18_OkOnlyOnClosure ==
    /\ chanQueue = 0
    /\ arm # "value"
    /\ result = "Ok" => (Resolved /\ chanSenders = 0 /\ arm = "disconnected")

\* rendezvous_timeout returned Ok(()) after guards were forked and released.
C18_Witness ==
    /\ pc = "running"
    /\ result = "Ok"
    /\ \A g \in GuardIds : guard[g] = "released"

\* C19: when rendezvous() ends, the drop of `self` runs rendezvous_internal
\* again: the internal sender is already gone, the run drops nothing, emits
\* nothing, changes nothing but the owner's position, and its receive is
\* ready at once.
C19_SecondRunIsNoop ==
    /\ [](pc \in {"rv_end", "rv_drop_recv"} =>
             (~tx /\ txDrops = 1 /\ RecvReady /\ "not_invoked" \notin log))
    /\ [][(pc \in {"rv_end", "rv_drop_recv"} /\ pc' # pc) =>
             /\ pc' = (IF pc = "rv_end" THEN "rv_drop_recv" ELSE "returned")
             /\ UNCHANGED <<tx, chanSenders, chanQueue, guard, parent, born,
                            timer, arm, panicked, txDrops, log>>]_vars

\* rendezvous() has returned, through the second run, after waiting on guards.
C19_Witness ==
    /\ pc = "returned"
    /\ txDrops = 1
    /\ \E g \in GuardIds : guard[g] = "released"
    /\ "nested" \in log

====
